---- MODULE Spec2Model ----
(***************************************************************************)
(* Model of the mov.db movie catalogue.                                    *)
(*                                                                         *)
(*   src/movie_storage/movies_storage_sql.py  the SQLite-backed store and  *)
(*                                            add/delete/update            *)
(*   src/movies.py                            the menu handlers: remove,   *)
(*                                            update, statistics, random   *)
(*                                            pick and the two sorts       *)
(*                                                                         *)
(* The table `movies` is a sequence of rows in rowid order (the id column  *)
(* is AUTOINCREMENT and is never read, so a row's position stands for it). *)
(* Ratings are counted in tenths so that they stay integers; a year and a  *)
(* rating are the numbers SQLite's column affinity makes of the provider's *)
(* numeric strings.                                                        *)
(***************************************************************************)
EXTENDS Integers, Sequences, FiniteSets, TLC

\* ------------------------------------------------------------ bounds ----
MaxRating == 2      \* ratings range over 0..MaxRating
MaxYear == 2        \* years range over 0..MaxYear

Titles == {"A", "B", "C"}       \* canonical titles the provider knows
Queries == {"a", "A"}           \* what the user types
Ratings == 0..MaxRating
Years == 0..MaxYear

VARIABLES
    movies,      \* the table: rows [title, year, rating, poster] in rowid order
    last,        \* the most recent call: [op, arg, exc, ret, msg]
    adders,      \* SpecRace: each concurrent add_movie call's position and locals
    sort_pc,     \* SpecQuery: "idle", "rating", "year", "choice"
    work_lst,    \* SpecQuery: rating_lst / year_lst of the running sort
    sorted_lst,  \* SpecQuery: sorted_lst of the running sort
    passes       \* SpecQuery: outer-loop passes the running sort has made

vars == <<movies, last, adders, sort_pc, work_lst, sorted_lst, passes>>

\* ------------------------------------------------------- the table ------
PosterOf(t) == "poster_" \o t

HasTitle(tbl, t) == \E i \in 1..Len(tbl) : tbl[i].title = t

\* title TEXT UNIQUE NOT NULL: an INSERT of a title the table holds raises
\* IntegrityError and changes nothing.
sql_insert_nounique(tbl, row) == [exc |-> "none", tbl |-> Append(tbl, row)]
sql_insert(tbl, row) ==
    IF HasTitle(tbl, row.title)
    THEN [exc |-> "IntegrityError", tbl |-> tbl]
    ELSE [exc |-> "none", tbl |-> Append(tbl, row)]

\* DELETE FROM movies WHERE title = :title
sql_delete_all(tbl, t) == << >>
sql_delete(tbl, t) == SelectSeq(tbl, LAMBDA r : r.title # t)

\* UPDATE movies SET rating = :rating WHERE title = :title
sql_update(tbl, t, rating) ==
    [i \in 1..Len(tbl) |->
        IF tbl[i].title = t THEN [tbl[i] EXCEPT !.rating = rating] ELSE tbl[i]]

\* A Python dict keeps insertion order: a sequence of items, one per key.
\* Setting a key the dict holds overwrites its value in place.
RECURSIVE DictOfRows(_)
DictOfRows(rows) ==
    IF rows = << >> THEN << >>
    ELSE LET d == DictOfRows(SubSeq(rows, 1, Len(rows) - 1))
             r == rows[Len(rows)]
             item == [title |-> r.title, year |-> r.year, rating |-> r.rating]
         IN IF \E i \in 1..Len(d) : d[i].title = r.title
            THEN [i \in 1..Len(d) |-> IF d[i].title = r.title THEN item ELSE d[i]]
            ELSE Append(d, item)

\* get_movies(): SELECT title, year, rating FROM movies, as title -> {year, rating}
get_movies(tbl) == DictOfRows(tbl)

InDict(d, t) == \E i \in 1..Len(d) : d[i].title = t
DictGet(d, t) == d[CHOOSE i \in 1..Len(d) : d[i].title = t]

\* ----------------------------------------------------- the provider -----
\* What requests.get(url) can give: no response at all (the transport fails
\* and requests raises), or a response with a status code and a body that is
\* JSON or not.  A JSON body carries Response "True" with the record, or
\* Response "False".
\* Spec and SpecRace fix the year the provider gives for a title (two titles
\* share a year); the rating it gives is any of Ratings.  SpecQuery starts
\* from the tables of any catalogue.
YearOf(t) == IF t = "A" THEN 1 ELSE 2

NoParsed == [Response |-> "False"]
Found(t, y, r) ==
    [Response |-> "True", Title |-> t, Year |-> y, imdbRating |-> r, Poster |-> PosterOf(t)]

Responses ==
    {[raises |-> TRUE, status_code |-> 0, is_json |-> FALSE, parsed |-> NoParsed]}
    \cup {[raises |-> FALSE, status_code |-> 503, is_json |-> j, parsed |-> NoParsed] :
            j \in BOOLEAN}
    \cup {[raises |-> FALSE, status_code |-> 200, is_json |-> TRUE, parsed |-> NoParsed]}
    \cup {[raises |-> FALSE, status_code |-> 200, is_json |-> TRUE, parsed |-> Found(t, YearOf(t), r)] :
            t \in Titles, r \in Ratings}

\* ------------------------------------------------------- add_movie ------
\* What a call gives back is a record: a result dict, [value |-> b] for a
\* bool, NoRet for None or for a call that raised.
NoRet == [none |-> TRUE]
Bool(b) == [value |-> b]
Returned(ret, tbl) == [exc |-> "none", ret |-> ret, tbl |-> tbl]
Raised(exc, tbl) == [exc |-> exc, ret |-> NoRet, tbl |-> tbl]

\* Lines 61-69: the request, res.json(), the status check, the Response check.
\* "go" means the call goes on to the duplicate check.
add_movie_fetch(title, res) ==
    IF res.raises THEN [go |-> FALSE, exc |-> "ConnectionError", ret |-> NoRet]
    ELSE IF ~res.is_json THEN [go |-> FALSE, exc |-> "JSONDecodeError", ret |-> NoRet]
    ELSE IF res.status_code # 200
    THEN [go |-> FALSE, exc |-> "none",
          ret |-> [success |-> FALSE, reason |-> "api_connection", title |-> title]]
    ELSE IF res.parsed.Response = "False"
    THEN [go |-> FALSE, exc |-> "none",
          ret |-> [success |-> FALSE, reason |-> "not_found", title |-> title]]
    ELSE [go |-> TRUE, exc |-> "none", ret |-> NoRet]

\* Lines 71-73: the duplicate check on the snapshot, keyed by parsed["Title"].
add_movie_is_duplicate_by_input(existing_movies, title, parsed) ==
    InDict(existing_movies, title)
add_movie_is_duplicate(existing_movies, title, parsed) ==
    InDict(existing_movies, parsed.Title)

DuplicateRet(parsed) == [success |-> FALSE, reason |-> "duplicate", title |-> parsed.Title]

\* Lines 75-91: the INSERT and its except clause.
add_movie_insert(tbl, parsed) ==
    LET ins == sql_insert(tbl, [title |-> parsed.Title, year |-> parsed.Year,
                                rating |-> parsed.imdbRating, poster |-> parsed.Poster])
    IN IF ins.exc = "none"
       THEN Returned([success |-> TRUE, reason |-> "added", title |-> parsed.Title,
                      year |-> parsed.Year, rating |-> parsed.imdbRating,
                      poser_image_url |-> parsed.Poster], ins.tbl)
       ELSE Returned([success |-> FALSE, reason |-> "database_error", error |-> ins.exc],
                     ins.tbl)

add_movie(tbl, title, res) ==
    LET f == add_movie_fetch(title, res)
    IN IF f.exc # "none" THEN Raised(f.exc, tbl)
       ELSE IF ~f.go THEN Returned(f.ret, tbl)
       ELSE IF add_movie_is_duplicate(get_movies(tbl), title, res.parsed)
       THEN Returned(DuplicateRet(res.parsed), tbl)
       ELSE add_movie_insert(tbl, res.parsed)

\* delete_movie / update_movie: the statement, the commit, return True.  The
\* except branch (return False) needs a fault of the database itself, which
\* the table above does not have.
delete_movie(tbl, title) == Returned(Bool(TRUE), sql_delete(tbl, title))

update_movie(tbl, title, rating) == Returned(Bool(TRUE), sql_update(tbl, title, rating))

\* ------------------------------------------------ the menu handlers ----
Inputs == Titles \cup Queries

Call(op, arg, out, msg) ==
    [op |-> op, arg |-> arg, exc |-> out.exc, ret |-> out.ret, msg |-> msg]

NoCall == [op |-> "none", arg |-> NoRet, exc |-> "none", ret |-> NoRet, msg |-> "none"]

\* add_movie_to_dict: the message chosen for add_movie's result; any
\* exception out of add_movie ends in the handler's except clause.
add_movie_to_dict_msg(out) ==
    IF out.exc # "none" THEN "unexpected_error"
    ELSE IF out.ret.success THEN "added"
    ELSE IF out.ret.reason \in {"not_found", "duplicate", "database_error", "api_connection"}
    THEN out.ret.reason
    ELSE "unexpected_error"

\* remove_movie_from_dict: delete_movie is called only for a title of the
\* snapshot.
remove_movie_from_dict(tbl, title) ==
    LET snapshot == get_movies(tbl)
    IN IF InDict(snapshot, title)
       THEN [out |-> delete_movie(tbl, title), msg |-> "deleted"]
       ELSE IF snapshot = << >>
       THEN [out |-> Returned(NoRet, tbl), msg |-> "database_empty"]
       ELSE [out |-> Returned(NoRet, tbl), msg |-> "movie_dont_exist"]

\* update_movie_from_dict: the rating is read from the snapshot (KeyError for
\* a title it does not hold) and written back.
update_movie_from_dict(tbl, title) ==
    LET snapshot == get_movies(tbl)
    IN IF ~InDict(snapshot, title)
       THEN [out |-> Raised("KeyError", tbl), msg |-> "unexpected_error"]
       ELSE [out |-> update_movie(tbl, title, DictGet(snapshot, title).rating),
             msg |-> "updated"]

\* ------------------------------------------------------------ Spec ------
QueryIdle ==
    /\ sort_pc = "idle" /\ work_lst = << >> /\ sorted_lst = << >> /\ passes = 0

NoAdders == adders = << >>

Init ==
    /\ movies = << >>
    /\ last = NoCall
    /\ NoAdders
    /\ QueryIdle

\* The menu's add calls add_movie with what the user typed.  delete_movie and
\* update_movie are the store's operations and take any title (and rating);
\* the menu's remove and update reach them through their own checks.
AddMovie(title, res) ==
    LET out == add_movie(movies, title, res)
    IN /\ movies' = out.tbl
       /\ last' = Call("add_movie", [title |-> title, res |-> res], out, add_movie_to_dict_msg(out))
       /\ UNCHANGED <<adders, sort_pc, work_lst, sorted_lst, passes>>

DeleteMovie(title) ==
    LET out == delete_movie(movies, title)
    IN /\ movies' = out.tbl
       /\ last' = Call("delete_movie", [title |-> title], out, "none")
       /\ UNCHANGED <<adders, sort_pc, work_lst, sorted_lst, passes>>

UpdateMovie(title, rating) ==
    LET out == update_movie(movies, title, rating)
    IN /\ movies' = out.tbl
       /\ last' = Call("update_movie", [title |-> title, rating |-> rating], out, "none")
       /\ UNCHANGED <<adders, sort_pc, work_lst, sorted_lst, passes>>

RemoveMovieFromDict(title) ==
    LET h == remove_movie_from_dict(movies, title)
    IN /\ movies' = h.out.tbl
       /\ last' = Call("remove_movie_from_dict", [title |-> title], h.out, h.msg)
       /\ UNCHANGED <<adders, sort_pc, work_lst, sorted_lst, passes>>

\* The handler's docstring has the user give "the movie title and new rating";
\* new_rating is that rating, which the code never asks for.
UpdateMovieFromDict(title, new_rating) ==
    LET h == update_movie_from_dict(movies, title)
    IN /\ movies' = h.out.tbl
       /\ last' = Call("update_movie_from_dict", [title |-> title, rating |-> new_rating], h.out, h.msg)
       /\ UNCHANGED <<adders, sort_pc, work_lst, sorted_lst, passes>>

Next ==
    \/ \E title \in Queries, res \in Responses : AddMovie(title, res)
    \/ \E title \in Inputs : DeleteMovie(title)
    \/ \E title \in Inputs, rating \in Ratings : UpdateMovie(title, rating)
    \/ \E title \in Inputs : RemoveMovieFromDict(title)
    \/ \E title \in Inputs, new_rating \in Ratings : UpdateMovieFromDict(title, new_rating)

Spec == Init /\ [][Next]_vars

\* ------------------------------------------------ claims under Spec ----
CountTitle(tbl, t) == Cardinality({i \in 1..Len(tbl) : tbl[i].title = t})

IsFound(res) ==
    ~res.raises /\ res.is_json /\ res.status_code = 200 /\ res.parsed.Response = "True"

IsFoundAdd(c) == c.op = "add_movie" /\ IsFound(c.arg.res)
Canon(c) == c.arg.res.parsed.Title

\* The entries of two snapshots agree on every title but t.
SameButFor(d1, d2, t) ==
    \A u \in (Titles \cup Inputs) \ {t} :
        /\ InDict(d1, u) <=> InDict(d2, u)
        /\ InDict(d1, u) => DictGet(d1, u) = DictGet(d2, u)

\* C1: an add_movie whose title the provider resolves to a canonical title
\* the table does not hold returns Added, one that resolves to a canonical
\* title the table holds returns Duplicate and writes nothing, whatever the
\* user typed; so of two adds in a row that resolve to one canonical title the
\* first is Added and the second Duplicate, and the table holds exactly one
\* row of that title after each.
Thm_C1 ==
    [][IsFoundAdd(last') =>
          LET t == Canon(last')
          IN /\ last'.exc = "none"
             /\ ~HasTitle(movies, t) => last'.ret.reason = "added"
             /\ HasTitle(movies, t) =>
                    /\ last'.ret.reason = "duplicate"
                    /\ last'.ret.title = t
                    /\ movies' = movies
             /\ (IsFoundAdd(last) /\ Canon(last) = t /\ last.ret.reason = "added")
                    => last'.ret.reason = "duplicate"
             /\ CountTitle(movies', t) = 1]_vars

\* A Duplicate for an input that is not the canonical title, one row held.
Wit_C1 ==
    /\ IsFoundAdd(last)
    /\ last.ret.reason = "duplicate"
    /\ last.arg.title # Canon(last)
    /\ CountTitle(movies, Canon(last)) = 1

\* C3: delete_movie returns true iff a row of exactly that title was in the
\* table, and a delete of a title the table does not hold returns false and
\* leaves the snapshot as it was.
Cex_C3 ==
    [][last'.op = "delete_movie" =>
          /\ last'.ret.value = TRUE <=> HasTitle(movies, last'.arg.title)
          /\ ~HasTitle(movies, last'.arg.title) => get_movies(movies') = get_movies(movies)]_vars

\* C4: update_movie returns true iff a row of exactly that title was in the
\* table; for a title the table does not hold it returns false.
Cex_C4 ==
    [][last'.op = "update_movie" =>
          (last'.ret.value = TRUE <=> HasTitle(movies, last'.arg.title))]_vars

\* The provider's ConnectionError: no response, or a response that is not 200.
IsConnectionError(res) == res.raises \/ res.status_code # 200

\* C5: when the provider signals ConnectionError, add_movie returns the
\* api_connection outcome as a value (no exception leaves it) and the table
\* is not written.
Cex_C5 ==
    [][(last'.op = "add_movie" /\ IsConnectionError(last'.arg.res)) =>
          /\ last'.exc = "none"
          /\ last'.ret.reason = "api_connection"
          /\ movies' = movies]_vars

\* The frame of one step: a row keeps its title, year and poster while it is
\* in the table, and an update touches no row but the one of its title.
FrameOfStep ==
    /\ \A i \in 1..Len(movies), j \in 1..Len(movies') :
          movies[i].title = movies'[j].title =>
              /\ movies[i].year = movies'[j].year
              /\ movies[i].poster = movies'[j].poster
    /\ last'.op \in {"update_movie", "update_movie_from_dict"} =>
          /\ Len(movies') = Len(movies)
          /\ \A i \in 1..Len(movies) :
                /\ movies'[i].title = movies[i].title
                /\ movies[i].title # last'.arg.title => movies'[i] = movies[i]

\* C6: an update writes the rating its caller gave (the snapshot shows it
\* afterwards), for update_movie and for the menu's update alike; no step
\* changes a stored row's title, year or poster, nor, on an update, another
\* row.
Cex_C6 ==
    [][/\ FrameOfStep
       /\ (last'.op = "update_movie"
              \/ (last'.op = "update_movie_from_dict" /\ last'.msg = "updated")) =>
            \A i \in 1..Len(movies') :
                movies'[i].title = last'.arg.title =>
                    DictGet(get_movies(movies'), last'.arg.title).rating = last'.arg.rating]_vars

\* C7: after an add that succeeds the snapshot maps the title to the year and
\* the rating that were inserted, after a delete the snapshot has no entry
\* of the title, and both leave every other entry of the snapshot as it was.
Thm_C7 ==
    [][/\ (last'.op = "add_movie" /\ last'.exc = "none" /\ last'.ret.success) =>
            LET p == last'.arg.res.parsed
                d == get_movies(movies')
            IN /\ InDict(d, p.Title)
               /\ DictGet(d, p.Title) =
                     [title |-> p.Title, year |-> p.Year, rating |-> p.imdbRating]
               /\ SameButFor(get_movies(movies), d, p.Title)
       /\ (last'.op = "delete_movie"
              \/ (last'.op = "remove_movie_from_dict" /\ last'.msg = "deleted")) =>
            /\ ~InDict(get_movies(movies'), last'.arg.title)
            /\ SameButFor(get_movies(movies), get_movies(movies'), last'.arg.title)]_vars

\* A title was inserted and deleted again, and another entry is still there.
Wit_C7 ==
    /\ last.op = "remove_movie_from_dict"
    /\ last.msg = "deleted"
    /\ ~InDict(get_movies(movies), last.arg.title)
    /\ movies # << >>

\* ------------------------------------------------------- SpecRace ------
\* Two add_movie calls on one database file, each in a process of its own.
\* A call is three steps that the other call can come between: the request
\* (lines 61-69), the snapshot and its duplicate check (lines 71-73), the
\* INSERT with its commit (lines 75-91).  Each SQL statement is atomic.
Procs == {1, 2}

NoRes == [raises |-> TRUE, status_code |-> 0, is_json |-> FALSE, parsed |-> NoParsed]

AdderAt(pc, title, res, exc, ret) ==
    [pc |-> pc, title |-> title, res |-> res, exc |-> exc, ret |-> ret]

InitRace ==
    /\ movies = << >>
    /\ last = NoCall
    /\ adders = [p \in Procs |-> AdderAt("start", "", NoRes, "none", NoRet)]
    /\ QueryIdle

AdderFetch(p, title, res) ==
    /\ adders[p].pc = "start"
    /\ LET f == add_movie_fetch(title, res)
       IN adders' = [adders EXCEPT ![p] =
              IF f.go THEN AdderAt("check", title, res, "none", NoRet)
              ELSE AdderAt("done", title, res, f.exc, f.ret)]
    /\ UNCHANGED <<movies, last, sort_pc, work_lst, sorted_lst, passes>>

AdderCheck(p) ==
    /\ adders[p].pc = "check"
    /\ LET a == adders[p]
       IN adders' = [adders EXCEPT ![p] =
              IF add_movie_is_duplicate(get_movies(movies), a.title, a.res.parsed)
              THEN AdderAt("done", a.title, a.res, "none", DuplicateRet(a.res.parsed))
              ELSE AdderAt("insert", a.title, a.res, "none", NoRet)]
    /\ UNCHANGED <<movies, last, sort_pc, work_lst, sorted_lst, passes>>

AdderInsert(p) ==
    /\ adders[p].pc = "insert"
    /\ LET a == adders[p]
           out == add_movie_insert(movies, a.res.parsed)
       IN /\ movies' = out.tbl
          /\ adders' = [adders EXCEPT ![p] = AdderAt("done", a.title, a.res, out.exc, out.ret)]
    /\ UNCHANGED <<last, sort_pc, work_lst, sorted_lst, passes>>

NextRace ==
    \/ \E p \in Procs, title \in Queries, res \in Responses : AdderFetch(p, title, res)
    \/ \E p \in Procs : AdderCheck(p)
    \/ \E p \in Procs : AdderInsert(p)

SpecRace == InitRace /\ [][NextRace]_vars

\* C2: an INSERT of a title that another writer inserted after this call's
\* duplicate check fails on the UNIQUE constraint, the call returns
\* database_error with success False, never Added, and writes nothing; in
\* every interleaving the table holds at most one row of a title.
Thm_C2 ==
    [][/\ \A p \in Procs :
            (adders[p].pc = "insert" /\ adders'[p].pc = "done") =>
                LET t == adders[p].res.parsed.Title
                IN /\ adders'[p].exc = "none"
                   /\ HasTitle(movies, t) =>
                          /\ adders'[p].ret.success = FALSE
                          /\ adders'[p].ret.reason = "database_error"
                          /\ movies' = movies
                   /\ ~HasTitle(movies, t) =>
                          /\ adders'[p].ret.success = TRUE
                          /\ adders'[p].ret.reason = "added"
       /\ \A t \in Titles : CountTitle(movies', t) <= 1]_vars

\* Both calls passed the duplicate check for one title: one was Added, the
\* other got database_error, and one row is held.
Wit_C2 ==
    /\ adders # << >>
    /\ \A p \in Procs : adders[p].pc = "done" /\ IsFound(adders[p].res)
    /\ adders[1].res.parsed.Title = adders[2].res.parsed.Title
    /\ adders[1].ret.reason = "added"
    /\ adders[2].ret.reason = "database_error"
    /\ CountTitle(movies, adders[1].res.parsed.Title) = 1

\* ------------------------------------------------------ SpecQuery ------
\* The statistics, the random pick and the two sorts read the table and
\* never write it: SpecQuery starts from every table of distinct titles and
\* runs them.  A sort is one step per pass of its outer while loop.
Row(t, y, r) == [title |-> t, year |-> y, rating |-> r, poster |-> PosterOf(t)]

Injective(f) == \A i, j \in DOMAIN f : f[i] = f[j] => i = j

AllTables ==
    UNION {{[i \in 1..k |-> Row(ts[i], ys[i], rs[i])] :
               ts \in {f \in [1..k -> Titles] : Injective(f)},
               ys \in [1..k -> Years],
               rs \in [1..k -> Ratings]} : k \in 0..Cardinality(Titles)}

\* A pass cannot be told from the one before it once it selects nothing, so
\* the count of passes stops one past the number of rows a table can have.
PassCap == Cardinality(Titles) + 1

\* list.remove(x): the first element equal to x goes.
RECURSIVE ListRemove(_, _)
ListRemove(lst, x) ==
    IF lst = << >> THEN << >>
    ELSE IF Head(lst) = x THEN Tail(lst)
    ELSE <<Head(lst)>> \o ListRemove(Tail(lst), x)

\* The inner for loop of sort_movies_by_rating over the first n entries:
\* the index of best_movie (0 for None), with best_rating starting at 0.0
\* and a strict comparison.
RECURSIVE best_movie(_, _)
best_movie(rating_lst, n) ==
    IF n = 0 THEN 0
    ELSE LET b == best_movie(rating_lst, n - 1)
             best_rating == IF b = 0 THEN 0 ELSE rating_lst[b].rating
         IN IF rating_lst[n].rating > best_rating THEN n ELSE b

\* The same loop of sort_movies_by_year, keyed by the year.
RECURSIVE youngest_movie(_, _)
youngest_movie(year_lst, n) ==
    IF n = 0 THEN 0
    ELSE LET b == youngest_movie(year_lst, n - 1)
             youngest_year == IF b = 0 THEN 0 ELSE year_lst[b].year
         IN IF year_lst[n].year > youngest_year THEN n ELSE b

Reversed(lst) == [i \in 1..Len(lst) |-> lst[Len(lst) + 1 - i]]

\* sorted(rating_lst) by insertion.
RECURSIVE SortedAsc(_)
SortedAsc(lst) ==
    IF lst = << >> THEN << >>
    ELSE LET rest == SortedAsc(Tail(lst))
             x == Head(lst)
             k == Cardinality({i \in 1..Len(rest) : rest[i] < x})
         IN SubSeq(rest, 1, k) \o <<x>> \o SubSeq(rest, k + 1, Len(rest))

RECURSIVE SumRatings(_)
SumRatings(d) == IF d = << >> THEN 0 ELSE Head(d).rating + SumRatings(Tail(d))

RatingList(d) == [i \in 1..Len(d) |-> d[i].rating]
SeqMax(lst) == CHOOSE x \in {lst[i] : i \in 1..Len(lst)} : \A i \in 1..Len(lst) : lst[i] <= x
SeqMin(lst) == CHOOSE x \in {lst[i] : i \in 1..Len(lst)} : \A i \in 1..Len(lst) : lst[i] >= x

Value(v) == [exc |-> "none", val |-> v]
Throws(exc) == [exc |-> exc, val |-> << >>]

\* calc_rating_average: sum / len raises ZeroDivisionError for no movies.
\* The value is kept as the exact quotient sum / n; round(.., 1) and the
\* f-string around it are the display.
calc_rating_average_no_raise(d) == Value(<<SumRatings(d), Len(d)>>)
calc_rating_average(d) ==
    IF Len(d) = 0 THEN Throws("ZeroDivisionError")
    ELSE Value(<<SumRatings(d), Len(d)>>)

\* calc_rating_median: sorted(rating_lst)[len // 2], an IndexError for an
\* empty list.
calc_rating_median_lower_middle(d) ==
    LET sorted_rating_lst == SortedAsc(RatingList(d))
        media_index == (Len(sorted_rating_lst) - 1) \div 2
    IN IF Len(sorted_rating_lst) = 0 THEN Throws("IndexError")
       ELSE Value(<<sorted_rating_lst[media_index + 1]>>)
calc_rating_median(d) ==
    LET sorted_rating_lst == SortedAsc(RatingList(d))
        media_index == Len(sorted_rating_lst) \div 2
    IN IF media_index + 1 > Len(sorted_rating_lst) THEN Throws("IndexError")
       ELSE Value(<<sorted_rating_lst[media_index + 1]>>)

\* return_best_movie / return_worst_movie: max() and min() of an empty
\* sequence raise ValueError; every entry of that rating, in dict order.
return_best_movie_first_only(d) ==
    IF Len(d) = 0 THEN Throws("ValueError")
    ELSE Value(<<d[CHOOSE i \in 1..Len(d) :
                     /\ d[i].rating = SeqMax(RatingList(d))
                     /\ \A j \in 1..(i - 1) : d[j].rating # SeqMax(RatingList(d))]>>)
return_best_movie(d) ==
    IF Len(d) = 0 THEN Throws("ValueError")
    ELSE Value(SelectSeq(d, LAMBDA e : e.rating = SeqMax(RatingList(d))))

return_worst_movie(d) ==
    IF Len(d) = 0 THEN Throws("ValueError")
    ELSE Value(SelectSeq(d, LAMBDA e : e.rating = SeqMin(RatingList(d))))

\* The except clauses of calc_stats_for_all_movies and return_random_movie.
ExceptMsg(exc) ==
    IF exc = "ZeroDivisionError" THEN "database_empty"
    ELSE IF exc = "FileNotFoundError" THEN "file_not_found"
    ELSE IF exc = "JSONDecodeError" THEN "file_corrupted"
    ELSE IF exc = "PermissionError" THEN "no_permission"
    ELSE "unexpected_error"

\* calc_stats_for_all_movies: the four in order, each on its own get_movies();
\* the first exception ends the try block.
calc_stats_for_all_movies(tbl) ==
    LET average == calc_rating_average(get_movies(tbl))
        median == calc_rating_median(get_movies(tbl))
        best == return_best_movie(get_movies(tbl))
        worst == return_worst_movie(get_movies(tbl))
        first_exc == IF average.exc # "none" THEN average.exc
                     ELSE IF median.exc # "none" THEN median.exc
                     ELSE IF best.exc # "none" THEN best.exc
                     ELSE worst.exc
    IN IF first_exc # "none"
       THEN [out |-> Returned(NoRet, tbl), msg |-> ExceptMsg(first_exc)]
       ELSE [out |-> Returned([average |-> average.val, median |-> median.val[1],
                               best |-> best.val, worst |-> worst.val], tbl),
             msg |-> "stats"]

\* return_random_movie: the empty check, then movies_lst[randrange(len)];
\* k is what randrange gives.
return_random_movie(tbl, k) ==
    LET d == get_movies(tbl)
    IN IF d = << >>
       THEN [out |-> Returned(NoRet, tbl), msg |-> "database_empty"]
       ELSE [out |-> Returned([title |-> d[k + 1].title, rating |-> d[k + 1].rating], tbl),
             msg |-> "random_movie"]

InitQuery ==
    /\ movies \in AllTables
    /\ last = NoCall
    /\ NoAdders
    /\ QueryIdle

\* sort_movies_by_rating up to the while loop: the empty check and rating_lst.
StartRatingSort ==
    /\ sort_pc = "idle"
    /\ IF get_movies(movies) = << >>
       THEN /\ last' = Call("sort_movies_by_rating", NoRet,
                            Returned(NoRet, movies), "database_empty")
            /\ UNCHANGED <<sort_pc, work_lst, sorted_lst, passes>>
       ELSE /\ sort_pc' = "rating"
            /\ work_lst' = get_movies(movies)
            /\ sorted_lst' = << >>
            /\ passes' = 0
            /\ last' = NoCall
    /\ UNCHANGED <<movies, adders>>

\* One pass of `while rating_lst:`.
RatingPass ==
    /\ sort_pc = "rating"
    /\ work_lst # << >>
    /\ passes < PassCap
    /\ LET b == best_movie(work_lst, Len(work_lst))
       IN IF b # 0
          THEN /\ sorted_lst' = Append(sorted_lst, work_lst[b])
               /\ work_lst' = ListRemove(work_lst, work_lst[b])
          ELSE UNCHANGED <<sorted_lst, work_lst>>
    /\ passes' = passes + 1
    /\ UNCHANGED <<movies, last, adders, sort_pc>>

\* The loop is left: result_lst is returned (an entry stands for its line).
RatingReturn ==
    /\ sort_pc = "rating"
    /\ work_lst = << >>
    /\ sort_pc' = "idle"
    /\ last' = Call("sort_movies_by_rating", NoRet,
                     Returned([result |-> sorted_lst], movies), "sorted")
    /\ UNCHANGED <<movies, adders, work_lst, sorted_lst, passes>>

StartYearSort ==
    /\ sort_pc = "idle"
    /\ IF get_movies(movies) = << >>
       THEN /\ last' = Call("sort_movies_by_year", NoRet,
                            Returned(NoRet, movies), "database_empty")
            /\ UNCHANGED <<sort_pc, work_lst, sorted_lst, passes>>
       ELSE /\ sort_pc' = "year"
            /\ work_lst' = get_movies(movies)
            /\ sorted_lst' = << >>
            /\ passes' = 0
            /\ last' = NoCall
    /\ UNCHANGED <<movies, adders>>

\* One pass of `while year_lst:`.
YearPass ==
    /\ sort_pc = "year"
    /\ work_lst # << >>
    /\ passes < PassCap
    /\ LET b == youngest_movie(work_lst, Len(work_lst))
       IN IF b # 0
          THEN /\ sorted_lst' = Append(sorted_lst, work_lst[b])
               /\ work_lst' = ListRemove(work_lst, work_lst[b])
          ELSE UNCHANGED <<sorted_lst, work_lst>>
    /\ passes' = passes + 1
    /\ UNCHANGED <<movies, last, adders, sort_pc>>

\* The prompt after the loop: 'b' gives [], 'old' the reversed list, 'young'
\* the list (any other input prompts again).
YearChoice(user_input) ==
    /\ sort_pc = "year"
    /\ work_lst = << >>
    /\ sort_pc' = "idle"
    /\ last' = Call("sort_movies_by_year", [user_input |-> user_input],
                     Returned([result |-> IF user_input = "b" THEN << >>
                                          ELSE IF user_input = "old" THEN Reversed(sorted_lst)
                                          ELSE sorted_lst], movies),
                     "sorted")
    /\ UNCHANGED <<movies, adders, work_lst, sorted_lst, passes>>

CalcStats ==
    /\ sort_pc = "idle"
    /\ LET h == calc_stats_for_all_movies(movies)
       IN last' = Call("calc_stats_for_all_movies", NoRet, h.out, h.msg)
    /\ UNCHANGED <<movies, adders, sort_pc, work_lst, sorted_lst, passes>>

ReturnRandomMovie(k) ==
    /\ sort_pc = "idle"
    /\ k < Len(movies) \/ (k = 0 /\ movies = << >>)
    /\ LET h == return_random_movie(movies, k)
       IN last' = Call("return_random_movie", NoRet, h.out, h.msg)
    /\ UNCHANGED <<movies, adders, sort_pc, work_lst, sorted_lst, passes>>

NextQuery ==
    \/ CalcStats
    \/ \E k \in 0..Cardinality(Titles) : ReturnRandomMovie(k)
    \/ StartRatingSort
    \/ RatingPass
    \/ RatingReturn
    \/ StartYearSort
    \/ YearPass
    \/ \E user_input \in {"b", "old", "young"} : YearChoice(user_input)

SpecQuery == InitQuery /\ [][NextQuery]_vars

\* --------------------------------------------- claims under SpecQuery ---
Snapshot == get_movies(movies)

PosIn(lst, e) == CHOOSE i \in 1..Len(lst) : lst[i] = e

IsPermutation(result, d) ==
    /\ Len(result) = Len(d)
    /\ \A i \in 1..Len(d) : Cardinality({j \in 1..Len(result) : result[j] = d[i]}) = 1

\* Entries with equal keys stand in the order the snapshot has them in.
KeepsSnapshotOrder(result, d, Key(_)) ==
    \A i, j \in 1..Len(result) :
        (i < j /\ Key(result[i]) = Key(result[j])) => PosIn(d, result[i]) < PosIn(d, result[j])

YearKey(e) == e.year
RatingKey(e) == e.rating

\* C8: the year sort gives, for 'young' (descending) and for 'old'
\* (ascending) alike, a permutation of the snapshot ordered by year in that
\* direction in which entries of one year keep their snapshot order.
Cex_C8 ==
    (last.op = "sort_movies_by_year" /\ last.msg = "sorted" /\ last.arg.user_input # "b") =>
        LET result == last.ret.result
        IN /\ IsPermutation(result, Snapshot)
           /\ \A i \in 1..(Len(result) - 1) :
                 IF last.arg.user_input = "young"
                 THEN result[i].year >= result[i + 1].year
                 ELSE result[i].year <= result[i + 1].year
           /\ KeepsSnapshotOrder(result, Snapshot, YearKey)

\* C9: the rating sort returns, for every snapshot: after as many passes as
\* the snapshot has entries the loop is left, and what is returned is a
\* permutation of the snapshot of equal length, every adjacent pair (a, b)
\* with rating(a) >= rating(b), entries of one rating in snapshot order.
Cex_C9 ==
    /\ (sort_pc = "rating" /\ passes >= Len(Snapshot)) => work_lst = << >>
    /\ (last.op = "sort_movies_by_rating" /\ last.msg = "sorted") =>
          LET result == last.ret.result
          IN /\ IsPermutation(result, Snapshot)
             /\ \A i \in 1..(Len(result) - 1) : result[i].rating >= result[i + 1].rating
             /\ KeepsSnapshotOrder(result, Snapshot, RatingKey)

\* C10: on an empty snapshot the statistics (average and median) and the
\* random pick end in the message that the database is empty, not in an
\* exception that leaves the handler nor in the handler's catch-all; on a
\* snapshot that is not empty neither gives that message.
Thm_C10 ==
    (last.op \in {"calc_stats_for_all_movies", "return_random_movie"}) =>
        /\ last.exc = "none"
        /\ Snapshot = << >> => last.msg = "database_empty"
        /\ Snapshot # << >> =>
              last.msg = (IF last.op = "return_random_movie" THEN "random_movie" ELSE "stats")

\* The statistics of an empty table were asked for.
Wit_C10 ==
    /\ last.op = "calc_stats_for_all_movies"
    /\ Snapshot = << >>
    /\ last.msg = "database_empty"

\* `picked` is the entries of d that pass Wanted, each once, in d's order.
IsSelectionInOrder(picked, d, Wanted(_)) ==
    /\ \A i \in 1..Len(picked) : Wanted(picked[i]) /\ \E k \in 1..Len(d) : d[k] = picked[i]
    /\ \A k \in 1..Len(d) : Wanted(d[k]) => \E i \in 1..Len(picked) : picked[i] = d[k]
    /\ \A i, j \in 1..Len(picked) : i < j => PosIn(d, picked[i]) < PosIn(d, picked[j])

NoneRatedAbove(e) == \A k \in 1..Len(Snapshot) : Snapshot[k].rating <= e.rating
NoneRatedBelow(e) == \A k \in 1..Len(Snapshot) : Snapshot[k].rating >= e.rating

\* C11: for a snapshot that is not empty the best and the worst of the
\* statistics are not empty, and hold exactly the entries no entry is rated
\* above (respectively below), every tie among them, in snapshot order.
Thm_C11 ==
    (last.op = "calc_stats_for_all_movies" /\ Snapshot # << >>) =>
        /\ last.msg = "stats"
        /\ last.ret.best # << >>
        /\ last.ret.worst # << >>
        /\ IsSelectionInOrder(last.ret.best, Snapshot, NoneRatedAbove)
        /\ IsSelectionInOrder(last.ret.worst, Snapshot, NoneRatedBelow)

\* Two of three entries tie for the best rating and both are given.
Wit_C11 ==
    /\ last.op = "calc_stats_for_all_movies"
    /\ Len(Snapshot) = 3
    /\ Len(last.ret.best) = 2
    /\ Len(last.ret.worst) = 1

\* How many entries of d are rated below x, and how many no higher than x.
RatedBelow(d, x) == Cardinality({k \in 1..Len(d) : d[k].rating < x})
RatedAtMost(d, x) == Cardinality({k \in 1..Len(d) : d[k].rating <= x})

\* C12: for a snapshot of n >= 1 entries the median of the statistics is
\* the rating at index floor(n/2), counted from 0, of the ratings in
\* ascending order: a rating of the snapshot with at most floor(n/2) ratings
\* below it and more than floor(n/2) ratings no higher; for even n that is
\* the upper of the two middle ratings.
Thm_C12 ==
    (last.op = "calc_stats_for_all_movies" /\ Snapshot # << >>) =>
        LET n == Len(Snapshot)
            median == last.ret.median
        IN /\ last.msg = "stats"
           /\ \E k \in 1..n : Snapshot[k].rating = median
           /\ RatedBelow(Snapshot, median) <= n \div 2
           /\ RatedAtMost(Snapshot, median) > n \div 2

\* Two entries of different ratings: the median is the higher rating.
Wit_C12 ==
    /\ last.op = "calc_stats_for_all_movies"
    /\ Len(Snapshot) = 2
    /\ Snapshot[1].rating # Snapshot[2].rating
    /\ last.ret.median = SeqMax(RatingList(Snapshot))

\* C13: the loops of both sorts end for every snapshot that is not empty,
\* whatever the ratings and years are: each pass selects one entry and takes
\* it out of the working list, so after k passes k entries are sorted and
\* the rest wait, and after n passes the working list is empty.
Cex_C13 ==
    sort_pc \in {"rating", "year"} =>
        /\ Len(sorted_lst) = passes
        /\ Len(work_lst) = Len(Snapshot) - passes
        /\ passes >= Len(Snapshot) => work_lst = << >>

====
